---------------------------- MODULE Spec2Model ----------------------------
(***************************************************************************)
(* Padding removal for raster images.                                      *)
(*                                                                         *)
(*   image_processor.py  ImagePaddingRemover: variance based detection,    *)
(*                       margin expansion, crop, save, process_batch.      *)
(*   imagedit.py         ImageProcessor: alpha based detection, crop,      *)
(*                       save, and the batch driver main().                *)
(*                                                                         *)
(* An image is a record [mode, h, w, px]; px[r][c] is the tuple of the     *)
(* samples of the pixel in row r, column c (1-based in px, while every     *)
(* index the program computes is kept 0-based as in the source).  Mode     *)
(* "L" decodes to a 2-D array, "RGB" and "RGBA" to a 3-D array.            *)
(*                                                                         *)
(* The float arithmetic of numpy is kept exact: means and variances are    *)
(* integers with a common positive factor (channel count, squared vector   *)
(* length), thresholds and ratios are rationals, and every comparison is   *)
(* made by cross multiplication.  The one rounding that changes a result   *)
(* is kept: 1 - threshold is exactly 1 for a threshold of at most 2^-54.   *)
(***************************************************************************)
EXTENDS Integers, Sequences, FiniteSets, TLC

VARIABLES
    mode_,      \* which entry point runs: "var", "alpha", or a batch driver
    cfg,        \* ImagePaddingRemover.threshold / .min_content_ratio
    img,        \* the decoded input image of the current call
    pc,         \* position of the current call
    box,        \* (top, bottom, left, right) as detected
    cropBox,    \* the box handed to img.crop
    expanded,   \* whether the margin branch was taken (the warning was logged)
    out,        \* the image returned by remove_padding
    pass,       \* how many times remove_padding has been called on the data
    inputs,     \* the input paths of the run, each with what its file is like
    idx,        \* 1-based position of the current input (0 before the loop)
    output_path,\* the output_path / output_filename argument of the call
    exc,        \* the exception in flight inside remove_padding
    raised,     \* the exception that reached the caller of the entry point
    stored,     \* positions of the inputs whose output has been written
    logs,       \* the records given to the logger, in order
    events      \* history: the steps taken on the inputs, in order

pixVars == <<cfg, img, box, cropBox, expanded, out, pass>>
runVars == <<inputs, idx, output_path, exc, raised, stored, logs, events>>
vars == <<mode_, pc, pixVars, runVars>>

-----------------------------------------------------------------------------
(* Bounds of the model *)

\* Exhaustively enumerated images have at most this many pixels.
MaxCells == 6
\* The same for the images given to the alpha path.
AlphaMaxCells == 8
\* Side length of the parametrised framed images (large enough for margin >= 1).
LargeDim == 20
\* remove_padding is run this many times in a row on its own output.
MaxPasses == 2
\* A batch has at most this many inputs.
MaxBatch == 3

-----------------------------------------------------------------------------
(* Arithmetic helpers *)

Min(a, b) == IF a <= b THEN a ELSE b
Max(a, b) == IF a >= b THEN a ELSE b

\* The sum of s[lo..hi], by halves.
RECURSIVE SumRange(_, _, _)
SumRange(s, lo, hi) ==
    IF lo > hi THEN 0
    ELSE IF lo = hi THEN s[lo]
    ELSE LET mid == (lo + hi) \div 2
         IN SumRange(s, lo, mid) + SumRange(s, mid + 1, hi)
SumSeq(s) == SumRange(s, 1, Len(s))

\* The greatest of s[lo..hi], lo <= hi, by halves.
RECURSIVE MaxRange(_, _, _)
MaxRange(s, lo, hi) ==
    IF lo = hi THEN s[lo]
    ELSE LET mid == (lo + hi) \div 2
         IN Max(MaxRange(s, lo, mid), MaxRange(s, mid + 1, hi))
MaxSeq(s) == MaxRange(s, 1, Len(s))

RECURSIVE Pow2(_)
Pow2(e) == IF e = 0 THEN 1 ELSE 2 * Pow2(e - 1)

Reverse(s) == [i \in 1..Len(s) |-> s[Len(s) + 1 - i]]

\* A first-match search that answers the length when nothing matches.
ArgMaxBoolOrLen(bs) ==
    IF \E i \in 1..Len(bs) : bs[i]
    THEN (CHOOSE i \in 1..Len(bs) : bs[i] /\ \A j \in 1..(i - 1) : ~bs[j]) - 1
    ELSE Len(bs)

\* np.argmax on a boolean vector: the 0-based index of the first True, and 0
\* when no element is True.
ArgMaxBool(bs) ==
    IF \E i \in 1..Len(bs) : bs[i]
    THEN (CHOOSE i \in 1..Len(bs) : bs[i] /\ \A j \in 1..(i - 1) : ~bs[j]) - 1
    ELSE 0

-----------------------------------------------------------------------------
(* Images *)

\* Sample tuples the enumerated images are built from, per mode.
Palette(m) ==
    CASE m = "L"    -> {<<0>>, <<1>>, <<3>>}
      [] m = "RGB"  -> {<<0, 0, 0>>, <<3, 0, 0>>}
      [] m = "RGBA" -> {<<0, 0, 0, 0>>, <<4, 4, 4, 1>>, <<4, 4, 4, 255>>}

Shapes(n) == {s \in (1..n) \X (1..n) : s[1] * s[2] <= n}

\* Every image of mode m with at most n pixels over the palette of m.
ImagesOf(m, n) ==
    UNION {[mode : {m}, h : {s[1]}, w : {s[2]},
            px : [1..s[1] -> [1..s[2] -> Palette(m)]]] : s \in Shapes(n)}

\* An h x w image of uniform background with one block of content in rows
\* [t, b) and columns [l, r) (0-based, half open); the content is a checker
\* pattern of two foreground samples.
Framed(m, h, w, t, b, l, r) ==
    [mode |-> m, h |-> h, w |-> w,
     px |-> [y \in 1..h |-> [x \in 1..w |->
              IF y - 1 >= t /\ y - 1 < b /\ x - 1 >= l /\ x - 1 < r
              THEN IF (x + y) % 2 = 0
                   THEN (IF m = "L" THEN <<3>> ELSE <<4, 4, 4>>)
                   ELSE (IF m = "L" THEN <<1>> ELSE <<9, 1, 4>>)
              ELSE (IF m = "L" THEN <<0>> ELSE <<0, 0, 0>>)]]]

\* A LargeDim x 2 * LargeDim image of three channels without any content.
BlankImage == Framed("RGB", LargeDim, 2 * LargeDim, 0, 0, 0, 0)

FrameStarts == {0, 1, LargeDim \div 2}
FrameSizes == {1, LargeDim \div 2}

LargeImages ==
    {Framed(m, LargeDim, w, t, t + hh, l, l + ww) :
        m \in {"L", "RGB"}, w \in {LargeDim, 2 * LargeDim},
        t \in FrameStarts, hh \in FrameSizes, l \in FrameStarts, ww \in FrameSizes}

\* A square image of side 5 * LargeDim whose content is a square block of side
\* LargeDim \div 4, two rows below the top border and far from the others.
ExampleImage ==
    Framed("L", 5 * LargeDim, 5 * LargeDim,
           2, 2 + LargeDim \div 4, 2 * LargeDim, 2 * LargeDim + LargeDim \div 4)

NoBox == [top |-> -1, bottom |-> -1, left |-> -1, right |-> -1]
NoImage == [mode |-> "none", h |-> 0, w |-> 0, px |-> <<>>]

FullBox(im) == [top |-> 0, bottom |-> im.h, left |-> 0, right |-> im.w]

ZeroPixel(m) ==
    CASE m = "L"    -> <<0>>
      [] m = "RGB"  -> <<0, 0, 0>>
      [] m = "RGBA" -> <<0, 0, 0, 0>>

\* PIL Image.crop((left, top, right, bottom)): the result has the size of the
\* box; what the box covers outside the image is filled with zero samples.
crop(im, b) ==
    [mode |-> im.mode, h |-> b.bottom - b.top, w |-> b.right - b.left,
     px |-> [r \in 1..(b.bottom - b.top) |->
              [c \in 1..(b.right - b.left) |->
                 IF b.top + r \in 1..im.h /\ b.left + c \in 1..im.w
                 THEN im.px[b.top + r][b.left + c]
                 ELSE ZeroPixel(im.mode)]]]

\* No run of a batch driver is modelled: its variables rest.
RunIdle ==
    /\ inputs = <<>>
    /\ idx = 0
    /\ output_path = ""
    /\ exc = "none"
    /\ raised = "none"
    /\ stored = {}
    /\ logs = <<>>
    /\ events = <<>>

-----------------------------------------------------------------------------
(* image_processor.py: ImagePaddingRemover *)

\* A threshold is the rational num / (den * 2^exp).
DefaultThreshold == [num |-> 99, den |-> 100, exp |-> 0]
DefaultMinContentRatio == [num |-> 1, den |-> 10]

\* 1 - 2^-53 is the largest double below 1: a threshold of at most 2^-54 is
\* absorbed by the subtraction 1 - threshold, which then yields exactly 1.
HalfUlpExp == 54

Thresholds ==
    {DefaultThreshold,
     [num |-> 1, den |-> 2, exp |-> 0],
     [num |-> 1, den |-> 5, exp |-> 0],
     [num |-> 1, den |-> 1, exp |-> HalfUlpExp + 1]}

MinContentRatios == {DefaultMinContentRatio, [num |-> 1, den |-> 2]}

Configs == [threshold : Thresholds, min_content_ratio : MinContentRatios]

\* The threshold itself in place of its complement.
OneMinusDropped(t) ==
    IF t.exp >= HalfUlpExp
    THEN [num |-> 0, den |-> 1]
    ELSE [num |-> t.num, den |-> t.den * Pow2(t.exp)]

\* (1 - self.threshold) as the double subtraction computes it, as a rational.
OneMinus(t) ==
    IF t.exp >= HalfUlpExp
    THEN [num |-> 1, den |-> 1]
    ELSE [num |-> t.den * Pow2(t.exp) - t.num, den |-> t.den * Pow2(t.exp)]

\* np.mean(img_array, axis=2) for a 3-D array, the array itself for a 2-D one.
\* The mean is kept multiplied by the channel count, a factor common to every
\* pixel of the image.
gray_array(im) ==
    IF im.mode # "L"
    THEN [r \in 1..im.h |-> [c \in 1..im.w |-> SumSeq(im.px[r][c])]]
    ELSE [r \in 1..im.h |-> [c \in 1..im.w |-> im.px[r][c][1]]]

\* np.var of a vector, multiplied by the square of its length.
VarN(xs) ==
    Len(xs) * SumSeq([i \in 1..Len(xs) |-> xs[i] * xs[i]]) - SumSeq(xs) * SumSeq(xs)

row_vars(g) == [r \in 1..Len(g) |-> VarN(g[r])]
col_vars(g) == [c \in 1..Len(g[1]) |-> VarN([r \in 1..Len(g) |-> g[r][c]])]

\* vs > np.max(vs) * (1 - threshold), elementwise; om is 1 - threshold.
AboveThreshold(vs, om) ==
    LET m == MaxSeq(vs)
    IN [i \in 1..Len(vs) |-> vs[i] * om.den > m * om.num]

\* bottom and right as the last content index instead of one past it.
compute_edge_boundaries_inclusive(im, threshold) ==
    LET g == gray_array(im)
        om == OneMinus(threshold)
        rowHit == AboveThreshold(row_vars(g), om)
        colHit == AboveThreshold(col_vars(g), om)
    IN [top    |-> ArgMaxBool(rowHit),
        bottom |-> Len(rowHit) - 1 - ArgMaxBool(Reverse(rowHit)),
        left   |-> ArgMaxBool(colHit),
        right  |-> Len(colHit) - 1 - ArgMaxBool(Reverse(colHit))]

compute_edge_boundaries(im, threshold) ==
    LET g == gray_array(im)
        om == OneMinus(threshold)
        rowHit == AboveThreshold(row_vars(g), om)
        colHit == AboveThreshold(col_vars(g), om)
    IN [top    |-> ArgMaxBool(rowHit),
        bottom |-> Len(rowHit) - ArgMaxBool(Reverse(rowHit)),
        left   |-> ArgMaxBool(colHit),
        right  |-> Len(colHit) - ArgMaxBool(Reverse(colHit))]

\* content_height / height < min_content_ratio or content_width / width < ...
TooAggressive(b, im, mcr) ==
    \/ (b.bottom - b.top) * mcr.den < mcr.num * im.h
    \/ (b.right - b.left) * mcr.den < mcr.num * im.w

MarginPercent == 5

\* The margin taken from the longer side.
MarginOfLongerSide(im) == (Max(im.h, im.w) * MarginPercent) \div 100

\* int(min(height, width) * 0.05)
Margin(im) == (Min(im.h, im.w) * MarginPercent) \div 100

AdjustBox(b, im) ==
    [top    |-> Max(0, b.top - Margin(im)),
     bottom |-> Min(im.h, b.bottom + Margin(im)),
     left   |-> Max(0, b.left - Margin(im)),
     right  |-> Min(im.w, b.right + Margin(im))]

VarImages ==
    ImagesOf("L", MaxCells) \cup ImagesOf("RGB", MaxCells)
        \cup ImagesOf("RGBA", MaxCells - 1) \cup LargeImages \cup {ExampleImage, BlankImage}

InitVar ==
    /\ mode_ = "var"
    /\ cfg \in Configs
    /\ img \in VarImages
    /\ pc = "start"
    /\ box = NoBox
    /\ cropBox = NoBox
    /\ expanded = FALSE
    /\ out = NoImage
    /\ pass = 1
    /\ RunIdle

\* ImagePaddingRemover.remove_padding on a decoded image.
RemovePaddingVar ==
    /\ mode_ = "var"
    /\ pc = "start"
    /\ LET b == compute_edge_boundaries(img, cfg.threshold)
           adjust == TooAggressive(b, img, cfg.min_content_ratio)
           cb == IF adjust THEN AdjustBox(b, img) ELSE b
       IN /\ box' = b
          /\ expanded' = adjust
          /\ cropBox' = cb
          /\ out' = crop(img, cb)
    /\ pc' = "done"
    /\ UNCHANGED <<mode_, cfg, img, pass, runVars>>

\* The returned image is given to remove_padding again.
ReprocessVar ==
    /\ mode_ = "var"
    /\ pc = "done"
    /\ pass < MaxPasses
    /\ img' = out
    /\ pc' = "start"
    /\ pass' = pass + 1
    /\ box' = NoBox
    /\ cropBox' = NoBox
    /\ expanded' = FALSE
    /\ out' = NoImage
    /\ UNCHANGED <<mode_, cfg, runVars>>

\* One call of ImagePaddingRemover.remove_padding per configuration and image.
NextVar == RemovePaddingVar

SpecVar == InitVar /\ [][NextVar]_vars

-----------------------------------------------------------------------------
(* imagedit.py: ImageProcessor *)

Opaque == 255

\* img.convert('RGBA'): a mode without an alpha band becomes fully opaque.
ConvertRGBA(im) ==
    [im EXCEPT
       !.mode = "RGBA",
       !.px = [r \in 1..im.h |-> [c \in 1..im.w |->
                 CASE im.mode = "RGBA" -> im.px[r][c]
                   [] im.mode = "RGB"  -> Append(im.px[r][c], Opaque)
                   [] im.mode = "L"    ->
                        <<im.px[r][c][1], im.px[r][c][1], im.px[r][c][1], Opaque>>]]]

\* Only fully opaque pixels count as content.
AlphaMaskOpaqueOnly(im) ==
    [r \in 1..im.h |-> [c \in 1..im.w |-> im.px[r][c][4] = Opaque]]

\* Every pixel counts as content.
AlphaMaskNonNegative(im) ==
    [r \in 1..im.h |-> [c \in 1..im.w |-> im.px[r][c][4] >= 0]]

\* mask = img_data[:, :, 3] > 0
AlphaMask(im) == [r \in 1..im.h |-> [c \in 1..im.w |-> im.px[r][c][4] > 0]]

MaskAny(mask) == \E r \in 1..Len(mask) : \E c \in 1..Len(mask[r]) : mask[r][c]

\* np.any(mask, axis=1) and np.any(mask, axis=0)
AnyAxis1(mask) == [r \in 1..Len(mask) |-> \E c \in 1..Len(mask[r]) : mask[r][c]]
AnyAxis0(mask) == [c \in 1..Len(mask[1]) |-> \E r \in 1..Len(mask) : mask[r][c]]

\* np.where(bs)[0]: the 0-based indices of the True elements, ascending.
RECURSIVE WhereUpTo(_, _)
WhereUpTo(bs, n) ==
    IF n = 0 THEN <<>>
    ELSE IF bs[n] THEN Append(WhereUpTo(bs, n - 1), n - 1)
    ELSE WhereUpTo(bs, n - 1)
Where(bs) == WhereUpTo(bs, Len(bs))

\* The box (xmin, ymin, xmax, ymax), without the + 1.
AlphaBoxInclusive(mask) ==
    LET ys == Where(AnyAxis1(mask))
        xs == Where(AnyAxis0(mask))
    IN [top    |-> ys[1],
        bottom |-> ys[Len(ys)],
        left   |-> xs[1],
        right  |-> xs[Len(xs)]]

\* The box of img.crop((xmin, ymin, xmax + 1, ymax + 1)); needs mask.any().
AlphaBox(mask) ==
    LET ys == Where(AnyAxis1(mask))
        xs == Where(AnyAxis0(mask))
    IN [top    |-> ys[1],
        bottom |-> ys[Len(ys)] + 1,
        left   |-> xs[1],
        right  |-> xs[Len(xs)] + 1]

NoConfig == [threshold |-> DefaultThreshold, min_content_ratio |-> DefaultMinContentRatio]

AlphaImages == ImagesOf("RGBA", AlphaMaxCells) \cup ImagesOf("RGB", MaxCells)

InitAlpha ==
    /\ mode_ = "alpha"
    /\ cfg = NoConfig
    /\ img \in AlphaImages
    /\ pc = "start"
    /\ box = NoBox
    /\ cropBox = NoBox
    /\ expanded = FALSE
    /\ out = NoImage
    /\ pass = 1
    /\ RunIdle

\* ImageProcessor.remove_padding on a decoded image.
RemovePaddingAlpha ==
    /\ mode_ = "alpha"
    /\ pc = "start"
    /\ LET rgba == IF img.mode # "RGBA" THEN ConvertRGBA(img) ELSE img
           mask == AlphaMask(rgba)
       IN /\ img' = rgba
          /\ IF MaskAny(mask)
             THEN /\ box' = AlphaBox(mask)
                  /\ cropBox' = AlphaBox(mask)
                  /\ out' = crop(rgba, AlphaBox(mask))
             ELSE /\ box' = NoBox
                  /\ cropBox' = NoBox
                  /\ out' = rgba
    /\ pc' = "done"
    /\ UNCHANGED <<mode_, cfg, expanded, pass, runVars>>

\* The returned image is given to remove_padding again.
ReprocessAlpha ==
    /\ mode_ = "alpha"
    /\ pc = "done"
    /\ pass < MaxPasses
    /\ img' = out
    /\ pc' = "start"
    /\ pass' = pass + 1
    /\ box' = NoBox
    /\ cropBox' = NoBox
    /\ out' = NoImage
    /\ UNCHANGED <<mode_, cfg, expanded, runVars>>

\* One call of ImageProcessor.remove_padding per image.
NextAlpha == RemovePaddingAlpha

SpecAlpha == InitAlpha /\ [][NextAlpha]_vars

-----------------------------------------------------------------------------
(* Both detectors, each run on decoded images and again on what it returned *)

InitDetect == InitVar \/ InitAlpha
NextDetect == RemovePaddingVar \/ ReprocessVar \/ RemovePaddingAlpha \/ ReprocessAlpha
SpecDetect == InitDetect /\ [][NextDetect]_vars

-----------------------------------------------------------------------------
(* The entry points, step by step                                          *)
(*                                                                         *)
(* An input is described by what happens to its file: "ok" passes every    *)
(* step, "missing" does not exist, and "fail_load", "fail_detect",         *)
(* "fail_crop", "fail_save" make the named step raise.                     *)

ItemKinds == {"ok", "missing", "fail_load", "fail_detect", "fail_crop", "fail_save"}

ErrorOf(kind) ==
    CASE kind = "missing"     -> "FileNotFoundError"
      [] kind = "fail_load"   -> "UnidentifiedImageError"
      [] kind = "fail_detect" -> "ValueError"
      [] kind = "fail_crop"   -> "MemoryError"
      [] kind = "fail_save"   -> "OSError"

RECURSIVE SeqsUpTo(_, _)
SeqsUpTo(S, n) ==
    IF n = 0 THEN {<<>>}
    ELSE SeqsUpTo(S, n - 1) \cup [1..n -> S]

BatchModes == {"process_batch", "main"}
VarModes == {"process_batch", "direct_var"}
AlphaModes == {"main", "direct_alpha"}

Item == inputs[idx]

Logged(level, what) == Append(logs, [level |-> level, item |-> idx, what |-> what])
Event(what) == Append(events, [item |-> idx, what |-> what])

InitRun ==
    /\ mode_ \in BatchModes \cup {"direct_var", "direct_alpha"}
    /\ IF mode_ \in BatchModes
       THEN /\ inputs \in SeqsUpTo(ItemKinds, MaxBatch)
            /\ idx = 0
            /\ output_path = ""
            /\ pc = "loop"
       ELSE /\ inputs \in [1..1 -> ItemKinds]
            /\ idx = 1
            /\ output_path \in {"", "output.png"}
            /\ pc = IF mode_ = "direct_var" THEN "load" ELSE "exists"
    /\ exc = "none"
    /\ raised = "none"
    /\ stored = {}
    /\ logs = <<>>
    /\ events = <<>>
    /\ cfg = NoConfig
    /\ img = NoImage
    /\ box = NoBox
    /\ cropBox = NoBox
    /\ expanded = FALSE
    /\ out = NoImage
    /\ pass = 1

\* An exception leaves ImagePaddingRemover.remove_padding, which catches
\* nothing; process_batch catches nothing either, so it reaches the caller.
VarRaise(lg) ==
    /\ events' = Event("failed")
    /\ raised' = ErrorOf(Item)
    /\ logs' = lg
    /\ pc' = "finished"
    /\ UNCHANGED <<mode_, pixVars, inputs, idx, output_path, exc, stored>>

\* ImagePaddingRemover.remove_padding: the log line, Image.open, np.array.
VarLoad ==
    /\ mode_ \in VarModes
    /\ pc = "load"
    /\ IF Item \in {"missing", "fail_load"}
       THEN VarRaise(Logged("info", "processing"))
       ELSE /\ logs' = Logged("info", "processing")
            /\ events' = Event("load")
            /\ pc' = "detect"
            /\ UNCHANGED <<mode_, pixVars, inputs, idx, output_path, exc, raised, stored>>

\* A detection whose failure is recorded and then passed over.
VarDetectContinue ==
    /\ mode_ \in VarModes
    /\ pc = "detect"
    /\ events' = Event(IF Item = "fail_detect" THEN "failed" ELSE "detect")
    /\ pc' = "crop"
    /\ UNCHANGED <<mode_, pixVars, inputs, idx, output_path, exc, raised, stored, logs>>

\* _compute_edge_boundaries and the validation of the boundaries.
VarDetect ==
    /\ mode_ \in VarModes
    /\ pc = "detect"
    /\ IF Item = "fail_detect"
       THEN VarRaise(logs)
       ELSE /\ events' = Event("detect")
            /\ pc' = "crop"
            /\ UNCHANGED <<mode_, pixVars, inputs, idx, output_path, exc, raised,
                           stored, logs>>

\* img.crop
VarCrop ==
    /\ mode_ \in VarModes
    /\ pc = "crop"
    /\ IF Item = "fail_crop"
       THEN VarRaise(logs)
       ELSE /\ events' = Event("crop")
            /\ pc' = "save"
            /\ UNCHANGED <<mode_, pixVars, inputs, idx, output_path, exc, raised,
                           stored, logs>>

\* if output_path: save and log; return cropped_img
VarSave ==
    /\ mode_ \in VarModes
    /\ pc = "save"
    /\ IF output_path # "" /\ Item = "fail_save"
       THEN VarRaise(logs)
       ELSE /\ IF output_path # ""
               THEN /\ stored' = stored \cup {idx}
                    /\ events' = Event("store")
                    /\ logs' = Logged("info", "saved")
               ELSE UNCHANGED <<stored, events, logs>>
            /\ pc' = IF mode_ = "process_batch" THEN "loop" ELSE "finished"
            /\ UNCHANGED <<mode_, pixVars, inputs, idx, output_path, exc, raised>>

\* process_batch: for idx, path in enumerate(image_paths)
BatchLoop ==
    /\ mode_ = "process_batch"
    /\ pc = "loop"
    /\ IF idx < Len(inputs)
       THEN /\ idx' = idx + 1
            /\ output_path' = "processed_idx.png"
            /\ pc' = "load"
       ELSE /\ pc' = "finished"
            /\ UNCHANGED <<idx, output_path>>
    /\ UNCHANGED <<mode_, pixVars, inputs, exc, raised, stored, logs, events>>

\* An exception inside the try block of ImageProcessor.remove_padding.
AlphaRaise(lg) ==
    /\ events' = Event("failed")
    /\ exc' = ErrorOf(Item)
    /\ logs' = lg
    /\ pc' = "except"
    /\ UNCHANGED <<mode_, pixVars, inputs, idx, output_path, raised, stored>>

\* ImageProcessor.remove_padding: the log line and the os.path.exists check.
AlphaExists ==
    /\ mode_ \in AlphaModes
    /\ pc = "exists"
    /\ IF Item = "missing"
       THEN AlphaRaise(Logged("info", "processing"))
       ELSE /\ logs' = Logged("info", "processing")
            /\ pc' = "load"
            /\ UNCHANGED <<mode_, pixVars, inputs, idx, output_path, exc, raised,
                           stored, events>>

\* Image.open, convert('RGBA'), np.array
AlphaLoad ==
    /\ mode_ \in AlphaModes
    /\ pc = "load"
    /\ IF Item = "fail_load"
       THEN AlphaRaise(logs)
       ELSE /\ events' = Event("load")
            /\ pc' = "detect"
            /\ UNCHANGED <<mode_, pixVars, inputs, idx, output_path, exc, raised,
                           stored, logs>>

\* the mask and the content boundaries
AlphaDetect ==
    /\ mode_ \in AlphaModes
    /\ pc = "detect"
    /\ IF Item = "fail_detect"
       THEN AlphaRaise(logs)
       ELSE /\ events' = Event("detect")
            /\ pc' = "crop"
            /\ UNCHANGED <<mode_, pixVars, inputs, idx, output_path, exc, raised,
                           stored, logs>>

\* img.crop, or the image itself
AlphaCrop ==
    /\ mode_ \in AlphaModes
    /\ pc = "crop"
    /\ IF Item = "fail_crop"
       THEN AlphaRaise(logs)
       ELSE /\ events' = Event("crop")
            /\ pc' = "save"
            /\ UNCHANGED <<mode_, pixVars, inputs, idx, output_path, exc, raised,
                           stored, logs>>

\* the output filename and path, cropped.save, the log line, return cropped
AlphaSave ==
    /\ mode_ \in AlphaModes
    /\ pc = "save"
    /\ IF Item = "fail_save"
       THEN AlphaRaise(logs)
       ELSE /\ output_path' = IF output_path = "" THEN "processed_base_name"
                              ELSE output_path
            /\ stored' = stored \cup {idx}
            /\ events' = Event("store")
            /\ logs' = Logged("info", "saved")
            /\ pc' = IF mode_ = "main" THEN "returned" ELSE "finished"
            /\ UNCHANGED <<mode_, pixVars, inputs, idx, exc, raised>>

\* An except block that logs and does not raise again.
AlphaExceptSwallow ==
    /\ mode_ \in AlphaModes
    /\ pc = "except"
    /\ logs' = Logged("error", "error processing image")
    /\ exc' = "none"
    /\ pc' = IF mode_ = "main" THEN "returned" ELSE "finished"
    /\ UNCHANGED <<mode_, pixVars, inputs, idx, output_path, raised, stored, events>>

\* except Exception as e: logger.error(...); raise
AlphaExcept ==
    /\ mode_ \in AlphaModes
    /\ pc = "except"
    /\ logs' = Logged("error", "error processing image")
    /\ IF mode_ = "main"
       THEN /\ pc' = "main_except"
            /\ UNCHANGED <<exc, raised>>
       ELSE /\ raised' = exc
            /\ exc' = "none"
            /\ pc' = "finished"
    /\ UNCHANGED <<mode_, pixVars, inputs, idx, output_path, stored, events>>

\* The loop of main without the os.path.exists test.
MainLoopNoExistsTest ==
    /\ mode_ = "main"
    /\ pc = "loop"
    /\ IF idx < Len(inputs)
       THEN /\ idx' = idx + 1
            /\ output_path' = "processed_filename"
            /\ pc' = "exists"
       ELSE /\ pc' = "finished"
            /\ UNCHANGED <<idx, output_path>>
    /\ UNCHANGED <<mode_, pixVars, inputs, exc, raised, stored, logs, events>>

\* main: for filename in image_files, with the os.path.exists test
MainLoop ==
    /\ mode_ = "main"
    /\ pc = "loop"
    /\ IF idx < Len(inputs)
       THEN /\ idx' = idx + 1
            /\ IF inputs[idx + 1] # "missing"
               THEN /\ output_path' = "processed_filename"
                    /\ pc' = "exists"
                    /\ UNCHANGED <<logs, events>>
               ELSE /\ logs' = Append(logs, [level |-> "warning", item |-> idx + 1,
                                             what |-> "file not found"])
                    /\ events' = Append(events, [item |-> idx + 1, what |-> "missing"])
                    /\ pc' = "loop"
                    /\ UNCHANGED output_path
       ELSE /\ pc' = "finished"
            /\ UNCHANGED <<idx, output_path, logs, events>>
    /\ UNCHANGED <<mode_, pixVars, inputs, exc, raised, stored>>

\* main: logger.info after remove_padding has returned
MainLogSuccess ==
    /\ mode_ = "main"
    /\ pc = "returned"
    /\ logs' = Logged("info", "successfully processed")
    /\ pc' = "loop"
    /\ UNCHANGED <<mode_, pixVars, inputs, idx, output_path, exc, raised, stored, events>>

\* main: except Exception as e: logger.error(...), after which main returns
MainExcept ==
    /\ mode_ = "main"
    /\ pc = "main_except"
    /\ logs' = Logged("error", "main execution error")
    /\ exc' = "none"
    /\ pc' = "finished"
    /\ UNCHANGED <<mode_, pixVars, inputs, idx, output_path, raised, stored, events>>

NextRun ==
    \/ VarLoad \/ VarDetect \/ VarCrop \/ VarSave \/ BatchLoop
    \/ AlphaExists \/ AlphaLoad \/ AlphaDetect \/ AlphaCrop \/ AlphaSave
    \/ AlphaExcept \/ MainLoop \/ MainLogSuccess \/ MainExcept

SpecRun == InitRun /\ [][NextRun]_vars

-----------------------------------------------------------------------------
(* Properties of the alpha path *)

\* The 0-based (row, column) positions of the pixels of im with alpha > 0.
ContentPixels(im) ==
    {p \in (0..(im.h - 1)) \X (0..(im.w - 1)) : im.px[p[1] + 1][p[2] + 1][4] > 0}

AlphaDone == mode_ = "alpha" /\ pc = "done"

\* C2: for an RGBA image with at least one pixel of alpha > 0, the detected
\* box is the tight half-open bounding box of those pixels: top/left are the
\* least content row/column, bottom/right one past the greatest, every content
\* pixel lies inside, every border row/column of the box holds a content
\* pixel, and a single content pixel (r0, c0) gives (r0, r0+1, c0, c0+1).
C2_AlphaBoxTight ==
    (AlphaDone /\ ContentPixels(img) # {}) =>
        LET P == ContentPixels(img)
            rowsP == {p[1] : p \in P}
            colsP == {p[2] : p \in P}
        IN /\ box # NoBox
           /\ cropBox = box
           /\ \A y \in rowsP : box.top <= y /\ y < box.bottom
           /\ \A x \in colsP : box.left <= x /\ x < box.right
           /\ box.top \in rowsP
           /\ (box.bottom - 1) \in rowsP
           /\ box.left \in colsP
           /\ (box.right - 1) \in colsP
           /\ \A p \in P :
                P = {p} => box = [top |-> p[1], bottom |-> p[1] + 1,
                                  left |-> p[2], right |-> p[2] + 1]
           /\ out.h = box.bottom - box.top
           /\ out.w = box.right - box.left

\* A single content pixel away from the first row and column has been boxed.
C2_Witness ==
    /\ AlphaDone
    /\ pass = 1
    /\ Cardinality(ContentPixels(img)) = 1
    /\ box.top > 0
    /\ box.left > 0
    /\ out.h = 1
    /\ out.w = 1

\* C3: for a fully transparent RGBA image the alpha path performs no crop:
\* the result is the image itself with its full bounds, and no margin
\* expansion is applied.
C3_TransparentUncropped ==
    (AlphaDone /\ ContentPixels(img) = {}) =>
        /\ box = NoBox
        /\ cropBox = NoBox
        /\ out = img
        /\ out.h = img.h
        /\ out.w = img.w
        /\ expanded = FALSE

\* A fully transparent image of several rows and columns has been processed.
C3_Witness ==
    /\ AlphaDone
    /\ ContentPixels(img) = {}
    /\ img.h >= 2
    /\ img.w >= 2
    /\ out = img

-----------------------------------------------------------------------------
(* Properties of the variance path *)

VarDone == mode_ = "var" /\ pc = "done"

\* floor(min(height, width) * 0.05), stated by its defining inequalities.
IsMarginOf(m, im) ==
    /\ m >= 0
    /\ 20 * m <= Min(im.h, im.w)
    /\ Min(im.h, im.w) < 20 * (m + 1)

\* C5: the margin expansion happens exactly when contentHeight/height or
\* contentWidth/width is below minContentRatio; the box used for cropping is
\* then the detected box grown by margin = floor(min(height, width) * 0.05)
\* on each side and clamped to the image, and otherwise the detected box.
C5_MarginExpansion ==
    VarDone =>
        LET ratio == cfg.min_content_ratio
            small == \/ (box.bottom - box.top) * ratio.den < ratio.num * img.h
                     \/ (box.right - box.left) * ratio.den < ratio.num * img.w
        IN /\ expanded = small
           /\ ~small => cropBox = box
           /\ small => \E m \in 0..Min(img.h, img.w) :
                 /\ IsMarginOf(m, img)
                 /\ cropBox.top = Max(0, box.top - m)
                 /\ cropBox.bottom = Min(img.h, box.bottom + m)
                 /\ cropBox.left = Max(0, box.left - m)
                 /\ cropBox.right = Min(img.w, box.right + m)
           /\ out.h = cropBox.bottom - cropBox.top
           /\ out.w = cropBox.right - cropBox.left

\* In a square image of side 100 (5 * LargeDim) a detected box of 5 x 5 has
\* been grown by the margin of 5 on each side: the top is clamped at 0, the
\* other three sides move by the whole margin.
C5_Witness ==
    /\ VarDone
    /\ pass = 1
    /\ img.h = 5 * LargeDim
    /\ img.w = 5 * LargeDim
    /\ cfg.min_content_ratio = DefaultMinContentRatio
    /\ box = [top |-> 2, bottom |-> 7, left |-> 40, right |-> 45]
    /\ expanded
    /\ Margin(img) = 5
    /\ cropBox = [top |-> 0, bottom |-> 12, left |-> 35, right |-> 50]

\* t1 <= t2 for thresholds num / (den * 2^exp) with num, den below 2^10.
ThrLeq(t1, t2) ==
    IF t1.exp >= t2.exp
    THEN t1.num * t2.den <= t2.num * t1.den * Pow2(Min(t1.exp - t2.exp, 20))
    ELSE t1.num * t2.den * Pow2(Min(t2.exp - t1.exp, 20)) <= t2.num * t1.den

\* a/b <= c/d for rationals with positive denominators.
RatLeq(a, c) == a.num * c.den <= c.num * a.den

BoxContains(outer, inner) ==
    /\ outer.top <= inner.top
    /\ outer.bottom >= inner.bottom
    /\ outer.left <= inner.left
    /\ outer.right >= inner.right

\* For thresholds t1 <= t2: the variance thresholds under t2 are not above
\* those under t1, and every row/column counted as content under t1 is
\* counted under t2.
ThresholdsMonotone(im, t1, t2) ==
    LET g == gray_array(im)
        rv == row_vars(g)
        cv == col_vars(g)
        om1 == OneMinus(t1)
        om2 == OneMinus(t2)
    IN /\ RatLeq([num |-> MaxSeq(rv) * om2.num, den |-> om2.den],
                 [num |-> MaxSeq(rv) * om1.num, den |-> om1.den])
       /\ RatLeq([num |-> MaxSeq(cv) * om2.num, den |-> om2.den],
                 [num |-> MaxSeq(cv) * om1.num, den |-> om1.den])
       /\ \A r \in 1..Len(rv) :
            AboveThreshold(rv, om1)[r] => AboveThreshold(rv, om2)[r]
       /\ \A c \in 1..Len(cv) :
            AboveThreshold(cv, om1)[c] => AboveThreshold(cv, om2)[c]

\* C6 as stated: for any two thresholds t1 <= t2 in (0,1) the thresholds are
\* monotone, content under t1 is content under t2, and the box detected under
\* t2 contains the box detected under t1.
C6_Original ==
    VarDone =>
        \A t2 \in Thresholds :
            ThrLeq(cfg.threshold, t2) =>
                /\ ThresholdsMonotone(img, cfg.threshold, t2)
                /\ BoxContains(compute_edge_boundaries(img, t2), box)

\* The double subtraction 1 - t is below 1.
Distinguishable(t) == t.exp < HalfUlpExp

\* C6 (amended): for any two thresholds t1 <= t2 in (0,1) the thresholds are
\* monotone and content under t1 is content under t2; the box detected under
\* t2 contains the box detected under t1 provided 1 - t1 is below 1 in double
\* precision (t1 > 2^-54).
C6_ThresholdMonotone ==
    VarDone =>
        \A t2 \in Thresholds :
            ThrLeq(cfg.threshold, t2) =>
                /\ ThresholdsMonotone(img, cfg.threshold, t2)
                /\ Distinguishable(cfg.threshold) =>
                       BoxContains(compute_edge_boundaries(img, t2), box)

\* A higher threshold has detected a strictly larger box on the same image.
C6_Witness ==
    /\ VarDone
    /\ pass = 1
    /\ Distinguishable(cfg.threshold)
    /\ \E t2 \in Thresholds :
         /\ ThrLeq(cfg.threshold, t2)
         /\ t2 # cfg.threshold
         /\ compute_edge_boundaries(img, t2) # box
         /\ BoxContains(compute_edge_boundaries(img, t2), box)

Uniform(im) == \A r \in 1..im.h : \A c \in 1..im.w : im.px[r][c] = im.px[1][1]

\* C7: for an image of uniform intensity, of any size and channel count, the
\* variance detector returns top = 0: no row variance exceeds the row
\* threshold, and first-match on an all-false vector is index 0.
C7_UniformTopZero ==
    (VarDone /\ Uniform(img)) =>
        /\ \A r \in 1..img.h :
             ~AboveThreshold(row_vars(gray_array(img)), OneMinus(cfg.threshold))[r]
        /\ box.top = 0

\* A uniform multi-channel image of several rows and columns has been processed.
C7_Witness ==
    /\ VarDone
    /\ pass = 1
    /\ Uniform(img)
    /\ img.mode # "L"
    /\ img.px[1][1] # <<0, 0, 0>>
    /\ img.h >= 2
    /\ img.w >= 2
    /\ box.top = 0

-----------------------------------------------------------------------------
(* Properties of both paths *)

WellFormed(b, im) ==
    /\ 0 <= b.top
    /\ b.top <= b.bottom
    /\ b.bottom <= im.h
    /\ 0 <= b.left
    /\ b.left <= b.right
    /\ b.right <= im.w
    /\ b.bottom - b.top > 0
    /\ b.right - b.left > 0

\* C8: the box handed to the crop step by either detector (in the variance
\* path both before and after the margin expansion) satisfies
\* 0 <= top <= bottom <= height, 0 <= left <= right <= width, with positive
\* height and width.
C8_BoxWellFormed ==
    /\ VarDone => WellFormed(box, img) /\ WellFormed(cropBox, img)
    /\ (AlphaDone /\ cropBox # NoBox) => WellFormed(cropBox, img)

\* The variance path has detected a one pixel box inside a larger image.
C8_Witness ==
    /\ VarDone
    /\ pass = 1
    /\ img.h >= 3
    /\ img.w >= 2
    /\ box.bottom - box.top = 1
    /\ box.right - box.left = 1
    /\ box.top > 0

\* C4 as stated: with either detector, running remove_padding on the image
\* it returned gives back the full bounds of that image.
C4_Original ==
    (pc = "done" /\ pass >= 2) =>
        /\ out.h = img.h
        /\ out.w = img.w
        /\ cropBox \in {NoBox, FullBox(img)}

\* C4 (amended): with the alpha detector, running remove_padding on the image
\* it returned gives back the full bounds of that image; the variance detector
\* may shrink its own output again.
C4_AlphaIdempotent ==
    (AlphaDone /\ pass >= 2) =>
        /\ out = img
        /\ cropBox \in {NoBox, FullBox(img)}

\* The alpha path has been run on an image it returned, of several rows.
C4_Witness ==
    /\ AlphaDone
    /\ pass = 2
    /\ cropBox = FullBox(img)
    /\ out = img
    /\ img.h >= 2

-----------------------------------------------------------------------------
(* Properties of the entry points *)

Finished == pc = "finished"
BatchFinished == mode_ \in BatchModes /\ Finished
DirectFinished == mode_ \in {"direct_var", "direct_alpha"} /\ Finished

IsOutcome(e) == e.what \in {"store", "failed", "missing"}

\* The outcomes of the inputs in the order in which they came about.
Results == SelectSeq(events, IsOutcome)

EndsBatch(i) ==
    IF mode_ = "main" THEN inputs[i] \notin {"ok", "missing"} ELSE inputs[i] # "ok"

\* The number of inputs the batch gets to.
Reached ==
    IF \E i \in 1..Len(inputs) : EndsBatch(i)
    THEN CHOOSE i \in 1..Len(inputs) : EndsBatch(i) /\ \A j \in 1..(i - 1) : ~EndsBatch(j)
    ELSE Len(inputs)

FailedItems == {events[k].item : k \in {j \in 1..Len(events) : events[j].what = "failed"}}

\* C9: in a direct call of remove_padding every error raised while loading,
\* detecting, cropping or saving reaches the caller; and in every entry point
\* each failure reaches the caller or is given to the logger as an error or a
\* warning.
C9_ErrorsSurface ==
    /\ DirectFinished =>
         /\ FailedItems # {} <=> raised # "none"
         /\ raised # "none" => raised = ErrorOf(inputs[1])
         /\ inputs[1] \in {"missing", "fail_load", "fail_detect", "fail_crop"}
               => raised # "none"
         /\ (inputs[1] = "fail_save" /\ (mode_ = "direct_alpha" \/ output_path # ""))
               => raised # "none"
         /\ raised # "none" => stored = {}
    /\ Finished =>
         \A k \in 1..Len(events) :
             events[k].what \in {"failed", "missing"} =>
                 \/ raised # "none"
                 \/ \E l \in 1..Len(logs) :
                        /\ logs[l].item = events[k].item
                        /\ logs[l].level \in {"error", "warning"}

\* A direct call of ImageProcessor.remove_padding failed while saving: the
\* error was logged and reached the caller.
C9_Witness ==
    /\ mode_ = "direct_alpha"
    /\ Finished
    /\ inputs = <<"fail_save">>
    /\ raised = "OSError"
    /\ \E l \in 1..Len(logs) : logs[l].level = "error"
    /\ stored = {}

\* C10: the inputs are handled one after another in input order, the steps
\* of one input are load, detect, crop, store in this order, an output is
\* stored only after the load, the detection and the crop of the same input,
\* an input that failed stores nothing, and nothing is done for a later input
\* before the earlier one has been stored, has failed or was found missing.
C10_StepOrder ==
    /\ \A k \in 1..Len(events) :
         LET e == events[k] IN
         /\ e.item \in 1..Len(inputs)
         /\ e.what = "detect" =>
                k > 1 /\ events[k - 1] = [item |-> e.item, what |-> "load"]
         /\ e.what = "crop" =>
                k > 1 /\ events[k - 1] = [item |-> e.item, what |-> "detect"]
         /\ e.what = "store" =>
                k > 1 /\ events[k - 1] = [item |-> e.item, what |-> "crop"]
         /\ k > 1 =>
                /\ events[k - 1].item <= e.item
                /\ events[k - 1].item # e.item <=> IsOutcome(events[k - 1])
    /\ stored = {events[k].item : k \in {j \in 1..Len(events) : events[j].what = "store"}}
    /\ stored \cap FailedItems = {}
    /\ \A k \in 1..Len(events) : events[k].item <= idx

\* process_batch has stored the outputs of at least two inputs, one by one.
C10_Witness ==
    /\ mode_ = "process_batch"
    /\ Finished
    /\ Len(inputs) >= 2
    /\ stored = 1..Len(inputs)
    /\ Len(events) = 4 * Len(inputs)

=============================================================================
